---------------------------- MODULE Spec2Model ----------------------------
(***************************************************************************)
(* libcsvcpp: csv::CsvParser, the C++ wrapper of the libcsv engine, with   *)
(* the drivers that feed it (tests/test_csv.cpp, examples/csvtest.cpp).    *)
(*                                                                         *)
(* Bytes are their numeric values.  A field event is Col(data, null), a    *)
(* row event is Row(c) with c the terminator byte or -1.                   *)
(*                                                                         *)
(* The engine behind csv.h (csv_parse, csv_fini, csv_write2) keeps four    *)
(* lexical states; in the words of the design document they are            *)
(*   ROW_NOT_BEGUN, FIELD_NOT_BEGUN       Start                            *)
(*   FIELD_BEGUN, quoted = 0              UnquotedField                    *)
(*   FIELD_BEGUN, quoted = 1              QuotedField                      *)
(*   FIELD_MIGHT_HAVE_ENDED, spaces = 0   QuoteSeenInQuotedField           *)
(*   FIELD_MIGHT_HAVE_ENDED, spaces > 0   AfterClosingQuote                *)
(***************************************************************************)
EXTENDS Integers, Sequences, FiniteSets, TLC

VARIABLES
  p,        \* struct csv_parser held by CsvParser::impl
  doc,      \* the input of the driver (test_parser: input, len)
  pos,      \* bytes_processed: bytes of doc handed to parse so far
  events,   \* what cb1 / cb2 have received, in order
  phase,    \* "feeding", "failed" (parse threw), "finished", "finfailed"
  call,     \* the last call of the driver and what it returned
  w,        \* the last call of the writer: arguments, bytes stored, result
  options,  \* the option bits the driver asked for (test_parser: options)
  file,     \* csvvalid, csvinfo: which of the files is being read (argv index)
  error_occurred  \* csvvalid: a parse call on this file has thrown

vars == <<p, doc, pos, events, phase, call, w, options, file, error_occurred>>

-----------------------------------------------------------------------------
(* Bounds of the model *)
MaxLen == 3
MaxSrc == 3

-----------------------------------------------------------------------------
(* CsvParser::CommonDelimiter *)
Tab == 9
Space == 32
CR == 13
LF == 10
Comma == 44
Quote == 34
LetterA == 97

(* CsvParser::Option *)
Strict == 1
RepAllNl == 2
StrictFini == 4
AppendNull == 8
EmptyIsNull == 16

(* CsvError::ErrorType *)
Eparse == 1

RECURSIVE BitOr(_, _)
BitOr(a, b) ==
  IF a = 0 THEN b
  ELSE IF b = 0 THEN a
  ELSE (IF a % 2 = 1 \/ b % 2 = 1 THEN 1 ELSE 0) + 2 * BitOr(a \div 2, b \div 2)

RECURSIVE BitAnd(_, _)
BitAnd(a, b) ==
  IF a = 0 \/ b = 0 THEN 0
  ELSE (IF a % 2 = 1 /\ b % 2 = 1 THEN 1 ELSE 0) + 2 * BitAnd(a \div 2, b \div 2)

RECURSIVE Pow2(_)
Pow2(n) == IF n = 0 THEN 1 ELSE 2 * Pow2(n - 1)

(* a conversion that takes the option's value for a bit position *)
RECURSIVE convert_as_bit_index(_)
convert_as_bit_index(opts) ==
  IF opts = <<>> THEN 0
  ELSE BitOr(convert_as_bit_index(SubSeq(opts, 1, Len(opts) - 1)),
             Pow2(opts[Len(opts)]) % 256)

(* a conversion that assigns with = instead of |= *)
convert_last_only(opts) == IF opts = <<>> THEN 0 ELSE opts[Len(opts)]

(* a conversion that combines with &= instead of |= *)
RECURSIVE convert_with_and(_)
convert_with_and(opts) ==
  IF opts = <<>> THEN 0
  ELSE BitAnd(convert_with_and(SubSeq(opts, 1, Len(opts) - 1)),
              opts[Len(opts)])

(* c_options |= each option of the list, as unsigned char *)
RECURSIVE convert_options_to_c_flags(_)
convert_options_to_c_flags(opts) ==
  IF opts = <<>> THEN 0
  ELSE BitOr(convert_options_to_c_flags(SubSeq(opts, 1, Len(opts) - 1)),
             opts[Len(opts)])

-----------------------------------------------------------------------------
(* Events *)
Col(data, null) == [type |-> "COL", data |-> data, null |-> null, c |-> 0]
Row(c) == [type |-> "ROW", data |-> <<>>, null |-> FALSE, c |-> c]

-----------------------------------------------------------------------------
(* The engine *)
HasOpt(q, o) == BitAnd(q.options, o) # 0

is_space(c) == c = Space \/ c = Tab
is_term(c) == c = CR \/ c = LF

(* the block the field buffer grows by, as the engine sets it at first *)
MEM_BLK_SIZE == 128

(* csv_init(p, options): delimiter and quote start as comma and double quote *)
csv_init(flags) ==
  [pstate |-> "ROW_NOT_BEGUN", quoted |-> 0, spaces |-> 0, entry |-> <<>>,
   status |-> 0, options |-> flags, delim_char |-> Comma, quote_char |-> Quote,
   blk_size |-> MEM_BLK_SIZE]

csv_set_opts(q, flags) == [q EXCEPT !.options = flags]
csv_set_delim(q, c) == [q EXCEPT !.delim_char = c]
csv_set_quote(q, c) == [q EXCEPT !.quote_char = c]

(* csv_set_blk_size(p, size) returns nothing *)
csv_set_blk_size(q, size) == [q EXCEPT !.blk_size = size]

Drop(s, n) == SubSeq(s, 1, Len(s) - n)

(* The field the engine hands to cb1, and the state after it *)
SubmitField(q) ==
  LET data == IF q.quoted = 0 THEN Drop(q.entry, q.spaces) ELSE q.entry
  IN [p  |-> [q EXCEPT !.pstate = "FIELD_NOT_BEGUN", !.entry = <<>>,
                       !.quoted = 0, !.spaces = 0],
      ev |-> <<IF HasOpt(q, EmptyIsNull) /\ q.quoted = 0 /\ data = <<>>
               THEN Col(<<>>, TRUE) ELSE Col(data, FALSE)>>]

SubmitRow(q, c) ==
  [p  |-> [q EXCEPT !.pstate = "ROW_NOT_BEGUN", !.entry = <<>>,
                    !.quoted = 0, !.spaces = 0],
   ev |-> <<Row(c)>>]

SubmitFieldRow(q, c) ==
  LET f == SubmitField(q)
      r == SubmitRow(f.p, c)
  IN [p |-> r.p, ev |-> f.ev \o r.ev]

SubmitChar(q, c) == [q EXCEPT !.entry = Append(q.entry, c)]

(* the closing quote candidate and the spaces after it are taken back *)
DropQuote(q) == [q EXCEPT !.entry = Drop(q.entry, q.spaces + 1)]

Keep(q) == [p |-> q, ev |-> <<>>, err |-> FALSE]
Emit(r) == [p |-> r.p, ev |-> r.ev, err |-> FALSE]
Fail(q) == [p |-> [q EXCEPT !.status = Eparse], ev |-> <<>>, err |-> TRUE]

StepNotBegun(q, c) ==
  IF is_space(c) /\ c # q.delim_char THEN Keep(q)
  ELSE IF is_term(c) THEN
    IF q.pstate = "FIELD_NOT_BEGUN" THEN Emit(SubmitFieldRow(q, c))
    ELSE IF HasOpt(q, RepAllNl) THEN Emit(SubmitRow(q, c))
    ELSE Keep(q)
  ELSE IF c = q.delim_char THEN Emit(SubmitField(q))
  ELSE IF c = q.quote_char THEN
    Keep([q EXCEPT !.pstate = "FIELD_BEGUN", !.quoted = 1])
  ELSE Keep(SubmitChar([q EXCEPT !.pstate = "FIELD_BEGUN", !.quoted = 0], c))

StepBegun(q, c) ==
  IF c = q.quote_char THEN
    IF q.quoted = 1
    THEN Keep([SubmitChar(q, c) EXCEPT !.pstate = "FIELD_MIGHT_HAVE_ENDED"])
    ELSE IF HasOpt(q, Strict) THEN Fail(q)
    ELSE Keep([SubmitChar(q, c) EXCEPT !.spaces = 0])
  ELSE IF c = q.delim_char THEN
    IF q.quoted = 1 THEN Keep(SubmitChar(q, c)) ELSE Emit(SubmitField(q))
  ELSE IF is_term(c) THEN
    IF q.quoted = 0 THEN Emit(SubmitFieldRow(q, c)) ELSE Keep(SubmitChar(q, c))
  ELSE IF q.quoted = 0 /\ is_space(c)
    THEN Keep([SubmitChar(q, c) EXCEPT !.spaces = q.spaces + 1])
  ELSE Keep([SubmitChar(q, c) EXCEPT !.spaces = 0])

StepMightHaveEnded(q, c) ==
  IF c = q.delim_char THEN Emit(SubmitField(DropQuote(q)))
  ELSE IF is_term(c) THEN Emit(SubmitFieldRow(DropQuote(q), c))
  ELSE IF is_space(c) THEN Keep([SubmitChar(q, c) EXCEPT !.spaces = q.spaces + 1])
  ELSE IF c = q.quote_char THEN
    IF q.spaces > 0 THEN
      IF HasOpt(q, Strict) THEN Fail(q)
      ELSE Keep([SubmitChar(q, c) EXCEPT !.spaces = 0])
    ELSE Keep([q EXCEPT !.pstate = "FIELD_BEGUN"])
  ELSE IF HasOpt(q, Strict) THEN Fail(q)
  ELSE Keep([SubmitChar(q, c) EXCEPT !.pstate = "FIELD_BEGUN", !.spaces = 0])

(* one byte of the loop of csv_parse *)
Step(q, c) ==
  IF q.pstate \in {"ROW_NOT_BEGUN", "FIELD_NOT_BEGUN"} THEN StepNotBegun(q, c)
  ELSE IF q.pstate = "FIELD_BEGUN" THEN StepBegun(q, c)
  ELSE StepMightHaveEnded(q, c)

(* csv_parse(p, s, len, cb1, cb2, data): the bytes of s from index i on;  *)
(* stops before the offending byte and returns the count consumed.        *)
RECURSIVE csv_parse_from(_, _, _, _)
csv_parse_from(q, s, i, ev) ==
  IF i > Len(s) THEN [p |-> q, ev |-> ev, ret |-> Len(s)]
  ELSE LET r == Step(q, s[i])
       IN IF r.err THEN [p |-> r.p, ev |-> ev, ret |-> i - 1]
          ELSE csv_parse_from(r.p, s, i + 1, ev \o r.ev)

csv_parse(q, s) == csv_parse_from(q, s, 1, <<>>)

csv_error(q) == q.status

Reset(q) ==
  [q EXCEPT !.pstate = "ROW_NOT_BEGUN", !.entry = <<>>, !.quoted = 0,
            !.spaces = 0, !.status = 0]

(* csv_fini(p, cb1, cb2, data) *)
csv_fini(q) ==
  IF q.pstate = "FIELD_BEGUN" /\ q.quoted = 1
     /\ HasOpt(q, Strict) /\ HasOpt(q, StrictFini)
  THEN [p |-> [q EXCEPT !.status = Eparse], ev |-> <<>>, ret |-> -1]
  ELSE LET ev == CASE q.pstate = "FIELD_MIGHT_HAVE_ENDED" ->
                        SubmitFieldRow(DropQuote(q), -1).ev
                   [] q.pstate \in {"FIELD_NOT_BEGUN", "FIELD_BEGUN"} ->
                        SubmitFieldRow(q, -1).ev
                   [] OTHER -> <<>>
       IN [p |-> Reset(q), ev |-> ev, ret |-> 0]

-----------------------------------------------------------------------------
(* The wrapper *)

(* CsvParser::CsvParser() *)
CsvParser == csv_init(0)

(* a set_options that adds the listed options to those enabled *)
set_options_merge(q, opts) ==
  csv_set_opts(q, BitOr(q.options, convert_options_to_c_flags(opts)))

(* CsvParser::set_options(const std::vector<Option>&) *)
set_options(q, opts) == csv_set_opts(q, convert_options_to_c_flags(opts))

(* a set_quote pasted from set_delimiter that still sets the delimiter *)
set_quote_sets_delim(q, c) == csv_set_delim(q, c)

(* CsvParser::set_delimiter, CsvParser::set_quote *)
set_delimiter(q, c) == csv_set_delim(q, c)
set_quote(q, c) == csv_set_quote(q, c)

(* CsvParser::get_delimiter, CsvParser::get_quote *)
get_delimiter(q) == q.delim_char
get_quote(q) == q.quote_char

(* CsvParser::set_block_size: hands the size to the engine and returns;   *)
(* there is no throw in it                                                *)
set_block_size(q, size) == [p |-> csv_set_blk_size(q, size), threw |-> FALSE]

(* CsvParser::get_block_size *)
get_block_size(q) == q.blk_size

(* a parser as constructed, with the configuration of q *)
Fresh(q) ==
  csv_set_blk_size(
    csv_set_quote(csv_set_delim(csv_init(q.options), q.delim_char), q.quote_char),
    q.blk_size)

(* a wrapper that initialises the engine again in every call *)
parse_reinit(q, s) ==
  LET r == csv_parse(Fresh(q), s)
      c_error == csv_error(r.p)
  IN [p |-> r.p, ev |-> r.ev, ret |-> r.ret,
      threw |-> c_error # 0, type |-> c_error, bytes_parsed |-> r.ret]

(* a wrapper that does not hand the row callback on *)
parse_fields_only(q, s) ==
  LET r == csv_parse(q, s)
      c_error == csv_error(r.p)
      cols == {i \in 1..Len(r.ev) : r.ev[i].type = "COL"}
      RECURSIVE Pick(_)
      Pick(i) == IF i > Len(r.ev) THEN <<>>
                 ELSE (IF i \in cols THEN <<r.ev[i]>> ELSE <<>>) \o Pick(i + 1)
  IN [p |-> r.p, ev |-> Pick(1), ret |-> r.ret,
      threw |-> c_error # 0, type |-> c_error, bytes_parsed |-> r.ret]

(* a wrapper that does not look at the engine's error code *)
parse_nothrow(q, s) ==
  LET r == csv_parse(q, s)
  IN [p |-> r.p, ev |-> r.ev, ret |-> r.ret,
      threw |-> FALSE, type |-> 0, bytes_parsed |-> r.ret]

(* a wrapper that throws only for an error raised during this call *)
parse_new_error_only(q, s) ==
  LET r == csv_parse(q, s)
      c_error == csv_error(r.p)
  IN [p |-> r.p, ev |-> r.ev, ret |-> r.ret,
      threw |-> c_error # 0 /\ csv_error(q) = 0, type |-> c_error,
      bytes_parsed |-> r.ret]

(* a wrapper that hands the events on only when the call succeeded *)
parse_events_lost(q, s) ==
  LET r == csv_parse(q, s)
      c_error == csv_error(r.p)
  IN [p |-> r.p, ev |-> IF c_error # 0 THEN <<>> ELSE r.ev, ret |-> r.ret,
      threw |-> c_error # 0, type |-> c_error, bytes_parsed |-> r.ret]

(* a wrapper that takes a short count for the sign of an error *)
parse_short_count(q, s) ==
  LET r == csv_parse(q, s)
      c_error == csv_error(r.p)
  IN [p |-> r.p, ev |-> r.ev, ret |-> r.ret,
      threw |-> r.ret < Len(s), type |-> c_error, bytes_parsed |-> r.ret]

(* a wrapper that leaves bytes_parsed of CsvError at its default, 0 *)
parse_no_count(q, s) ==
  LET r == csv_parse(q, s)
      c_error == csv_error(r.p)
  IN [p |-> r.p, ev |-> r.ev, ret |-> r.ret,
      threw |-> c_error # 0, type |-> c_error, bytes_parsed |-> 0]

(* CsvParser::parse: throws CsvError(type, bytes_parsed) when the engine's *)
(* error code is set after the call, returns the count otherwise.          *)
parse(q, s) ==
  LET r == csv_parse(q, s)
      c_error == csv_error(r.p)
  IN [p |-> r.p, ev |-> r.ev, ret |-> r.ret,
      threw |-> c_error # 0, type |-> c_error, bytes_parsed |-> r.ret]

(* a wrapper that tests the result of csv_fini the wrong way round *)
finish_inverted(q) ==
  LET r == csv_fini(q)
  IN [p |-> r.p, ev |-> r.ev, threw |-> r.ret = 0]

(* a wrapper that hands csv_fini no row callback *)
finish_no_row(q) ==
  LET r == csv_fini(q)
  IN [p |-> r.p, ev |-> IF r.ev = <<>> THEN <<>> ELSE <<r.ev[1]>>, threw |-> r.ret # 0]

(* a wrapper that hands csv_fini a copy of the parser *)
finish_by_value(q) ==
  LET r == csv_fini(q)
  IN [p |-> q, ev |-> r.ev, threw |-> r.ret # 0]

(* a wrapper that does not look at the result of csv_fini *)
finish_nothrow(q) ==
  LET r == csv_fini(q)
  IN [p |-> r.p, ev |-> r.ev, threw |-> FALSE]

(* CsvParser::finish: throws std::runtime_error when csv_fini fails *)
finish(q) ==
  LET r == csv_fini(q)
  IN [p |-> r.p, ev |-> r.ev, threw |-> r.ret # 0]


-----------------------------------------------------------------------------
(* The writer *)

(* a store into dest happens only while dest_size > chars *)
Put(st, dest_size, c) ==
  [chars |-> st.chars + 1,
   out   |-> IF dest_size > st.chars THEN Append(st.out, c) ELSE st.out]

RECURSIVE csv_write2_from(_, _, _, _, _)
csv_write2_from(st, dest_size, src, i, quote) ==
  IF i > Len(src) THEN st
  ELSE LET st1 == IF src[i] = quote THEN Put(st, dest_size, quote) ELSE st
       IN csv_write2_from(Put(st1, dest_size, src[i]), dest_size, src, i + 1, quote)

(* csv_write2(dest, dest_size, src, src_size, quote): the count of bytes   *)
(* the quoted field takes, and the bytes stored in dest (none if null)     *)
csv_write2(dest_null, dest_size, src, quote) ==
  LET size == IF dest_null THEN 0 ELSE dest_size
      st == Put(csv_write2_from(Put([chars |-> 0, out |-> <<>>], size, quote),
                                size, src, 1, quote),
                size, quote)
  IN [ret |-> st.chars, out |-> st.out]

csv_write(dest_null, dest_size, src) == csv_write2(dest_null, dest_size, src, Quote)

(* a wrapper that quotes with the wrong character *)
write_apostrophe(dest_null, dest_size, src) == csv_write2(dest_null, dest_size, src, 39)

(* a wrapper that hands src_size over as dest_size *)
write_src_size(dest_null, dest_size, src) == csv_write(dest_null, Len(src), src)

(* a wrapper that never reports more than the capacity it was given *)
write_clamped(dest_null, dest_size, src) ==
  LET r == csv_write(dest_null, dest_size, src)
  IN [ret |-> IF r.ret > dest_size THEN dest_size ELSE r.ret, out |-> r.out]

(* a wrapper that drops the caller's quote character *)
write2_default_quote(dest_null, dest_size, src, quote) == csv_write(dest_null, dest_size, src)

(* CsvParser::write *)
write(dest_null, dest_size, src) == csv_write(dest_null, dest_size, src)

(* CsvParser::write2 *)
write2(dest_null, dest_size, src, quote) == csv_write2(dest_null, dest_size, src, quote)

-----------------------------------------------------------------------------
(* The parser tests of tests/test_csv.cpp: data, options, expected events *)

test01_data == <<32, 49, 44, 50, 32, 44, 32, 32, 51, 32, 32, 32, 32, 32, 32, 32, 32, 32, 44, 52, 44, 53, 13, 10>>
test02_data == <<44, 44, 44, 44, 44, 10>>
test03_data == <<34, 44, 34, 44, 34, 44, 34, 44, 34, 34>>
test05_data == <<34, 34, 34, 97, 44, 98, 34, 34, 34, 44, 44, 34, 32, 34, 34, 34, 34, 32, 34, 44, 34, 34, 34, 34, 34, 32, 34, 44, 34, 32, 34, 34, 34, 34, 34, 44, 34, 34, 34, 34, 34, 34>>
test06_data == <<34, 32, 97, 44, 32, 98, 32, 44, 99, 32, 34, 44, 32, 97, 32, 98, 32, 32, 99, 44>>
test07_data == <<34, 32, 34, 34, 32, 34, 32, 34, 32, 34, 34, 32, 34>>
test10_data == <<97, 10>>
test11_data == <<49, 44, 50, 32, 44, 51, 44, 52, 10>>
test12_data == <<10, 10, 10, 10>>
test13_data == <<34, 97, 98, 99, 34>>
test14_data == <<49, 44, 32, 50, 44, 32, 51, 44, 10, 13, 10, 32, 32, 34, 52, 34, 44, 32, 13, 44>>
test15_data == <<49, 44, 32, 50, 44, 32, 51, 44, 10, 13, 10, 32, 32, 34, 52, 34, 44, 32, 13, 34, 34>>
test16_data == <<34, 49, 34, 44, 34, 50, 34, 44, 34, 32, 51, 32>>
test17_data == <<32, 97, 0, 98, 0, 99, 32>>
test19_data == <<32, 32, 44, 32, 34, 34, 32, 44>>
test07b_data == test07_data
(* test08_data with its run of spaces between the two quotes cut to one *)
test08_short_data == <<34, 32, 97, 98, 99, 34, 32, 34, 44, 32, 34, 49, 50, 51, 34>>
test12b_data == test12_data
test16b_data == test16_data

test01_results ==
  [ev |-> <<Col(<<49>>, FALSE), Col(<<50>>, FALSE), Col(<<51>>, FALSE), Col(<<52>>, FALSE), Col(<<53>>, FALSE), Row(13)>>,
   end |-> "CSV_END"]
test02_results ==
  [ev |-> <<Col(<<>>, FALSE), Col(<<>>, FALSE), Col(<<>>, FALSE), Col(<<>>, FALSE), Col(<<>>, FALSE), Col(<<>>, FALSE), Row(10)>>,
   end |-> "CSV_END"]
test03_results ==
  [ev |-> <<Col(<<44>>, FALSE), Col(<<44>>, FALSE), Col(<<>>, FALSE), Row(-1)>>,
   end |-> "CSV_END"]
test05_results ==
  [ev |-> <<Col(<<34, 97, 44, 98, 34>>, FALSE), Col(<<>>, FALSE), Col(<<32, 34, 34, 32>>, FALSE), Col(<<34, 34, 32>>, FALSE), Col(<<32, 34, 34>>, FALSE), Col(<<34, 34>>, FALSE), Row(-1)>>,
   end |-> "CSV_END"]
test06_results ==
  [ev |-> <<Col(<<32, 97, 44, 32, 98, 32, 44, 99, 32>>, FALSE), Col(<<97, 32, 98, 32, 32, 99>>, FALSE), Col(<<>>, FALSE), Row(-1)>>,
   end |-> "CSV_END"]
test07_results ==
  [ev |-> <<Col(<<32, 34, 32, 34, 32, 34, 32, 34, 32>>, FALSE), Row(-1)>>,
   end |-> "CSV_END"]
test07b_results == [ev |-> <<>>, end |-> "CSV_ERR"]
test08_short_results ==
  [ev |-> <<Col(<<32, 97, 98, 99, 34, 32>>, FALSE), Col(<<49, 50, 51>>, FALSE), Row(-1)>>,
   end |-> "CSV_END"]
test10_results ==
  [ev |-> <<Col(<<97>>, FALSE), Row(10)>>,
   end |-> "CSV_END"]
test11_results ==
  [ev |-> <<Col(<<49>>, FALSE), Col(<<50>>, FALSE), Col(<<51>>, FALSE), Col(<<52>>, FALSE), Row(10)>>,
   end |-> "CSV_END"]
test12_results ==
  [ev |-> <<>>,
   end |-> "CSV_END"]
test12b_results ==
  [ev |-> <<Row(10), Row(10), Row(10), Row(10)>>,
   end |-> "CSV_END"]
test13_results ==
  [ev |-> <<Col(<<97, 98, 99>>, FALSE), Row(-1)>>,
   end |-> "CSV_END"]
test14_results ==
  [ev |-> <<Col(<<49>>, FALSE), Col(<<50>>, FALSE), Col(<<51>>, FALSE), Col(<<>>, FALSE), Row(10), Col(<<52>>, FALSE), Col(<<>>, FALSE), Row(13), Col(<<>>, FALSE), Col(<<>>, FALSE), Row(-1)>>,
   end |-> "CSV_END"]
test15_results ==
  [ev |-> <<Col(<<49>>, FALSE), Col(<<50>>, FALSE), Col(<<51>>, FALSE), Col(<<>>, FALSE), Row(10), Col(<<52>>, FALSE), Col(<<>>, FALSE), Row(13), Col(<<>>, FALSE), Row(-1)>>,
   end |-> "CSV_END"]
test16_results ==
  [ev |-> <<Col(<<49>>, FALSE), Col(<<50>>, FALSE), Col(<<32, 51, 32>>, FALSE), Row(-1)>>,
   end |-> "CSV_END"]
test16b_results ==
  [ev |-> <<Col(<<49>>, FALSE), Col(<<50>>, FALSE)>>,
   end |-> "CSV_ERR"]
test17_results ==
  [ev |-> <<Col(<<97, 0, 98, 0, 99>>, FALSE), Row(-1)>>,
   end |-> "CSV_END"]
test19_results ==
  [ev |-> <<Col(<<>>, TRUE), Col(<<>>, FALSE), Col(<<>>, TRUE), Row(-1)>>,
   end |-> "CSV_END"]

(* DO_TEST(name, options) *)
Tests ==
  {
   [data |-> test01_data, options |-> 0, results |-> test01_results],
   [data |-> test01_data, options |-> Strict, results |-> test01_results],
   [data |-> test01_data, options |-> Strict + EmptyIsNull, results |-> test01_results],
   [data |-> test02_data, options |-> 0, results |-> test02_results],
   [data |-> test02_data, options |-> Strict, results |-> test02_results],
   [data |-> test03_data, options |-> 0, results |-> test03_results],
   [data |-> test03_data, options |-> Strict, results |-> test03_results],
   [data |-> test05_data, options |-> 0, results |-> test05_results],
   [data |-> test05_data, options |-> Strict, results |-> test05_results],
   [data |-> test05_data, options |-> Strict + StrictFini, results |-> test05_results],
   [data |-> test06_data, options |-> 0, results |-> test06_results],
   [data |-> test06_data, options |-> Strict, results |-> test06_results],
   [data |-> test07_data, options |-> 0, results |-> test07_results],
   [data |-> test08_short_data, options |-> 0, results |-> test08_short_results],
   [data |-> test07b_data, options |-> Strict, results |-> test07b_results],
   [data |-> test10_data, options |-> 0, results |-> test10_results],
   [data |-> test11_data, options |-> 0, results |-> test11_results],
   [data |-> test11_data, options |-> EmptyIsNull, results |-> test11_results],
   [data |-> test12_data, options |-> 0, results |-> test12_results],
   [data |-> test12_data, options |-> EmptyIsNull, results |-> test12_results],
   [data |-> test12b_data, options |-> RepAllNl, results |-> test12b_results],
   [data |-> test12b_data, options |-> RepAllNl + EmptyIsNull, results |-> test12b_results],
   [data |-> test13_data, options |-> 0, results |-> test13_results],
   [data |-> test14_data, options |-> 0, results |-> test14_results],
   [data |-> test14_data, options |-> Strict, results |-> test14_results],
   [data |-> test15_data, options |-> 0, results |-> test15_results],
   [data |-> test15_data, options |-> Strict, results |-> test15_results],
   [data |-> test16_data, options |-> 0, results |-> test16_results],
   [data |-> test16_data, options |-> Strict, results |-> test16_results],
   [data |-> test16b_data, options |-> Strict + StrictFini, results |-> test16b_results],
   [data |-> test17_data, options |-> 0, results |-> test17_results],
   [data |-> test17_data, options |-> Strict, results |-> test17_results],
   [data |-> test17_data, options |-> Strict + EmptyIsNull, results |-> test17_results],
   [data |-> test19_data, options |-> EmptyIsNull, results |-> test19_results]
  }

-----------------------------------------------------------------------------
(* The driver: test_parser of tests/test_csv.cpp, main of csvtest.cpp *)

Alphabet == {LetterA, Space, Comma, Quote, CR, LF}

RECURSIVE SeqsUpTo(_, _)
SeqsUpTo(S, n) ==
  IF n = 0 THEN {<<>>}
  ELSE LET shorter == SeqsUpTo(S, n - 1)
       IN shorter \cup {Append(s, c) : s \in {t \in shorter : Len(t) = n - 1}, c \in S}

(* every input of at most MaxLen bytes, and the inputs of the parser tests *)
Docs == SeqsUpTo(Alphabet, MaxLen) \cup {t.data : t \in Tests}

(* the options test_parser passes on: options_vec *)
options_vec(o) ==
  (IF BitAnd(o, Strict) # 0 THEN <<Strict>> ELSE <<>>)
  \o (IF BitAnd(o, RepAllNl) # 0 THEN <<RepAllNl>> ELSE <<>>)
  \o (IF BitAnd(o, StrictFini) # 0 THEN <<StrictFini>> ELSE <<>>)
  \o (IF BitAnd(o, EmptyIsNull) # 0 THEN <<EmptyIsNull>> ELSE <<>>)

OptionMasks == {o \in 0..31 : BitAnd(o, AppendNull) = 0}

(* CsvParser p; p.set_options(options_vec); p.set_delimiter(delimiter);  *)
(* p.set_quote(quote)                                                    *)
NewParser(o, delimiter, quote) ==
  set_quote(set_delimiter(set_options(CsvParser, options_vec(o)), delimiter), quote)

(* split: the input so far was handed over in more than one parse call *)
NoCall == [op |-> "none", at |-> 0, len |-> 0, ret |-> 0, threw |-> FALSE,
           type |-> 0, nev |-> 0, split |-> FALSE]

NoWrite == [op |-> "none", dest_null |-> TRUE, dest_size |-> 0, src |-> <<>>,
            quote |-> Quote, ret |-> 0, out |-> <<>>]

(* input + bytes_processed, bytes *)
Chunk(d, at, n) == SubSeq(d, at + 1, at + n)

InitOf(runs) ==
  /\ \E run \in runs :
       /\ doc = run[1]
       /\ options = run[2]
       /\ p = NewParser(run[2], Comma, Quote)
  /\ pos = 0
  /\ events = <<>>
  /\ phase = "feeding"
  /\ call = NoCall
  /\ w = NoWrite
  /\ file = 1
  /\ error_occurred = FALSE

Init == InitOf(Docs \X OptionMasks)

(* retval = p.parse(input + bytes_processed, bytes, cb1, cb2, test_name) *)
ParseBytes(bytes) ==
  LET r == parse(p, Chunk(doc, pos, bytes))
  IN /\ p' = r.p
     /\ events' = events \o r.ev
     /\ pos' = pos + bytes
     /\ phase' = IF r.threw THEN "failed" ELSE "feeding"
     /\ call' = [op |-> "parse", at |-> pos, len |-> bytes,
                 ret |-> IF r.threw THEN r.bytes_parsed ELSE r.ret,
                 threw |-> r.threw, type |-> r.type, nev |-> Len(events),
                 split |-> pos > 0]
     /\ error_occurred' = (error_occurred \/ r.threw)
     /\ UNCHANGED <<doc, w, options, file>>

(* bytes = size < len - bytes_processed ? size : len - bytes_processed,    *)
(* for the sizes up to MaxLen, and all that is left in one call           *)
ChunkSizes(left) == {n \in 1..left : n <= MaxLen \/ n = left}

(* the loop of test_parser: one chunk of the input per call *)
Parse ==
  /\ phase = "feeding"
  /\ pos < Len(doc)
  /\ \E bytes \in ChunkSizes(Len(doc) - pos) : ParseBytes(bytes)

(* p.finish(cb1, cb2, test_name) *)
FinishCall ==
  /\ LET r == finish(p)
     IN /\ p' = r.p
        /\ events' = events \o r.ev
        /\ phase' = IF r.threw THEN "finfailed" ELSE "finished"
        /\ call' = [op |-> "finish", at |-> pos, len |-> 0, ret |-> 0,
                    threw |-> r.threw, type |-> csv_error(r.p), nev |-> Len(events),
                    split |-> call.split]
  /\ UNCHANGED <<doc, pos, w, options, file, error_occurred>>

(* finish once the input is exhausted *)
Finish ==
  /\ phase = "feeding"
  /\ pos = Len(doc)
  /\ FinishCall

Next == Parse \/ Finish

Spec == Init /\ [][Next]_vars

-----------------------------------------------------------------------------
(* The writer's callers: test_writer, test_writer2, and a reader of what   *)
(* was written (the whole buffer in one parse call, as csvfix.cpp does)    *)

Apostrophe == 39

WAlphabet == Alphabet \cup {Apostrophe}

(* test_writer: malloc(input_len*2 + 2) *)
MaxDest == 2 * MaxSrc + 2

WInit ==
  /\ \E src \in SeqsUpTo(WAlphabet, MaxSrc), quote \in {Quote, Apostrophe},
        dest_null \in BOOLEAN, dest_size \in 0..MaxDest :
       w = [op |-> "none", dest_null |-> dest_null, dest_size |-> dest_size,
            src |-> src, quote |-> quote, ret |-> 0, out |-> <<>>]
  /\ options = 0
  /\ p = CsvParser
  /\ doc = <<>>
  /\ pos = 0
  /\ events = <<>>
  /\ phase = "writing"
  /\ call = NoCall
  /\ file = 1
  /\ error_occurred = FALSE

(* the caller reads the written field back when all of it is in dest *)
Written(op, r) ==
  /\ w' = [w EXCEPT !.op = op, !.ret = r.ret, !.out = r.out]
  /\ IF ~w.dest_null /\ r.ret <= w.dest_size /\ w.quote = p.quote_char
     THEN doc' = r.out /\ phase' = "feeding"
     ELSE doc' = doc /\ phase' = "written"
  /\ UNCHANGED <<p, pos, events, call, options, file, error_occurred>>

(* actual_len = csv::CsvParser::write(temp, size, input, input_len) *)
Write ==
  /\ phase = "writing"
  /\ w.quote = Quote
  /\ Written("write", write(w.dest_null, w.dest_size, w.src))

(* actual_len = csv::CsvParser::write2(temp, size, input, input_len, quote) *)
Write2 ==
  /\ phase = "writing"
  /\ Written("write2", write2(w.dest_null, w.dest_size, w.src, w.quote))

(* p.parse(buf, n, cb1, cb2, outfile) *)
ParseWhole ==
  /\ phase = "feeding"
  /\ pos = 0
  /\ Len(doc) > 0
  /\ ParseBytes(Len(doc))

WNext == Write \/ Write2 \/ ParseWhole \/ Finish

WSpec == WInit /\ [][WNext]_vars

-----------------------------------------------------------------------------
(* csvvalid.cpp, csvinfo.cpp: one parser reads several files in turn; a    *)
(* file is fed in chunks, finish is called when the file ends or when a    *)
(* parse call has thrown, and the next file goes to the same parser.       *)

MaxFiles == 2

(* the files: every text of up to MaxLen bytes, and two of the test inputs *)
RAlphabet == {LetterA, Space, Comma, Quote, LF}

RDocs == SeqsUpTo(RAlphabet, MaxLen) \cup {test07_data, test16_data}

RInit == InitOf(RDocs \X OptionMasks)

(* a caller that catches the error and goes on feeding the same file *)
ParseOn ==
  /\ phase = "failed"
  /\ pos < Len(doc)
  /\ \E bytes \in ChunkSizes(Len(doc) - pos) : ParseBytes(bytes)

(* csvvalid: the loop was left on an error, p.finish(NULL, NULL, NULL) *)
FinishFailed ==
  /\ phase = "failed"
  /\ FinishCall

(* finish called once more on a parser that has just been finished *)
FinishAgain ==
  /\ phase = "finished"
  /\ FinishCall

(* the end of the loop body for one file: error_occurred = false *)
CloseFile ==
  /\ phase = "finished"
  /\ file < MaxFiles
  /\ doc' = <<>>
  /\ pos' = 0
  /\ events' = <<>>
  /\ phase' = "closed"
  /\ call' = NoCall
  /\ error_occurred' = FALSE
  /\ UNCHANGED <<p, w, options, file>>

(* the next file is opened and will be fed to the same parser: pos = 0 *)
OpenFile ==
  /\ phase = "closed"
  /\ \E d \in RDocs : doc' = d
  /\ phase' = "feeding"
  /\ file' = file + 1
  /\ UNCHANGED <<p, pos, events, call, w, options, error_occurred>>

RNext ==
  \/ Parse
  \/ ParseOn
  \/ Finish
  \/ FinishFailed
  \/ FinishAgain
  \/ CloseFile
  \/ OpenFile

RSpec == RInit /\ [][RNext]_vars

-----------------------------------------------------------------------------
(* A caller that configures a parser: set_options, set_block_size,        *)
(* set_delimiter and set_quote in any order.  call.len is the argument of *)
(* the call and call.ret the value of the setting before it.              *)

Einvalid == 4

Semicolon == 59

(* the options of a list, for every subset of CsvParser::Option *)
OptionList(o) ==
  (IF BitAnd(o, Strict) # 0 THEN <<Strict>> ELSE <<>>)
  \o (IF BitAnd(o, RepAllNl) # 0 THEN <<RepAllNl>> ELSE <<>>)
  \o (IF BitAnd(o, StrictFini) # 0 THEN <<StrictFini>> ELSE <<>>)
  \o (IF BitAnd(o, AppendNull) # 0 THEN <<AppendNull>> ELSE <<>>)
  \o (IF BitAnd(o, EmptyIsNull) # 0 THEN <<EmptyIsNull>> ELSE <<>>)

AllOptions == {Strict, RepAllNl, StrictFini, AppendNull, EmptyIsNull}

BlockSizes == {0, 1, MEM_BLK_SIZE}

Delimiters == {Comma, Semicolon, Tab}

Quotes == {Quote, Apostrophe}

ConfigInit ==
  /\ p = CsvParser
  /\ options = 0
  /\ doc = <<>>
  /\ pos = 0
  /\ events = <<>>
  /\ phase = "configuring"
  /\ call = NoCall
  /\ w = NoWrite
  /\ file = 1
  /\ error_occurred = FALSE

Configured(op, arg, before, threw) ==
  /\ call' = [NoCall EXCEPT !.op = op, !.len = arg, !.ret = before, !.threw = threw]
  /\ UNCHANGED <<doc, pos, events, phase, w, file, error_occurred>>

(* p.set_options(options_vec) *)
SetOptions ==
  \E o \in 0..31 :
    /\ p' = set_options(p, OptionList(o))
    /\ options' = o
    /\ Configured("set_options", o, p.options, FALSE)

(* p.set_block_size(size) *)
SetBlockSize ==
  \E size \in BlockSizes :
    LET r == set_block_size(p, size)
    IN /\ p' = r.p
       /\ Configured("set_block_size", size, get_block_size(p), r.threw)
       /\ UNCHANGED options

(* p.set_delimiter(delimiter) *)
SetDelimiter ==
  \E c \in Delimiters :
    /\ p' = set_delimiter(p, c)
    /\ Configured("set_delimiter", c, get_delimiter(p), FALSE)
    /\ UNCHANGED options

(* p.set_quote(quote) *)
SetQuote ==
  \E c \in Quotes :
    /\ p' = set_quote(p, c)
    /\ Configured("set_quote", c, get_quote(p), FALSE)
    /\ UNCHANGED options

ConfigNext == SetOptions \/ SetBlockSize \/ SetDelimiter \/ SetQuote

ConfigSpec == ConfigInit /\ [][ConfigNext]_vars

-----------------------------------------------------------------------------
(* test_parser with a delimiter and a quote of the caller's choice:       *)
(* DO_TEST_CUSTOM(01, 0, ';', '\'', NULL, NULL)                            *)

custom01_data == <<39, 39, 39, 97, 59, 98, 39, 39, 39, 59, 59, 39, 32, 39, 39, 39, 39, 32, 39, 59, 39, 39, 39, 39, 39, 32, 39, 59, 39, 32, 39, 39, 39, 39, 39, 59, 39, 39, 39, 39, 39, 39>>
custom01_results ==
  [ev |-> <<Col(<<39, 97, 59, 98, 39>>, FALSE), Col(<<>>, FALSE), Col(<<32, 39, 39, 32>>, FALSE), Col(<<39, 39, 32>>, FALSE), Col(<<32, 39, 39>>, FALSE), Col(<<39, 39>>, FALSE), Row(-1)>>,
   end |-> "CSV_END"]

CustomAlphabet == {LetterA, Space, LF, Comma, Quote, Semicolon, Apostrophe}

CustomDocs == SeqsUpTo(CustomAlphabet, MaxLen) \cup {custom01_data}

(* delimiter and quote: those of custom01, each of them with the default  *)
(* for the other, and the defaults with their roles exchanged             *)
CustomPairs ==
  {<<Semicolon, Apostrophe>>, <<Comma, Apostrophe>>, <<Semicolon, Quote>>,
   <<Quote, Comma>>}

CustomOptions == {0, Strict}

CustomInit ==
  /\ \E d \in CustomDocs, o \in CustomOptions, dq \in CustomPairs :
       /\ doc = d
       /\ options = o
       /\ p = NewParser(o, dq[1], dq[2])
  /\ pos = 0
  /\ events = <<>>
  /\ phase = "feeding"
  /\ call = NoCall
  /\ w = NoWrite
  /\ file = 1
  /\ error_occurred = FALSE

CustomSpec == CustomInit /\ [][Next]_vars

-----------------------------------------------------------------------------
(* Reference runs: the whole input in a single parse call, then finish *)

OneShot(q, d) ==
  LET r == parse(q, d)
      f == finish(r.p)
  IN IF r.threw THEN [ev |-> r.ev, end |-> "failed"]
     ELSE [ev |-> r.ev \o f.ev, end |-> IF f.threw THEN "finfailed" ELSE "finished"]

Ended == phase \in {"failed", "finfailed", "finished"}

(* what test_parser accepts at the end of a run: cb1 and cb2 saw the      *)
(* expected events and the run ended as the last expected event says      *)
End == IF phase = "finished" THEN "CSV_END" ELSE "CSV_ERR"

IsTest(t) == t.data = doc /\ t.options = options

TestsPass ==
  \A t \in Tests :
    Ended /\ IsTest(t) => t.results = [ev |-> events, end |-> End]


-----------------------------------------------------------------------------
(* C1: chunk-boundary invariance.  However the input is split into        *)
(* non-empty chunks, once the run has ended (finish returned or threw, or *)
(* a parse call threw) the events delivered and the way the run ended are *)
(* those of a fresh parser of the same configuration given the whole      *)
(* input in one parse call followed by finish.                            *)
C1_ChunkInvariance ==
  Ended => [ev |-> events, end |-> phase] = OneShot(Fresh(p), doc)

(* a run that was split, with the split inside a quoted field, has ended  *)
(* with events delivered                                                  *)
C1_Witness ==
  /\ phase = "finished"
  /\ call.split
  /\ doc = test05_data
  /\ Len(events) = Len(test05_results.ev)

-----------------------------------------------------------------------------
(* What a quoted field must look like, stated position by position *)

Count(s, c) == Cardinality({i \in 1..Len(s) : s[i] = c})

Required(src, q) == Len(src) + 2 + Count(src, q)

(* where byte i of src lands in the quoted field *)
At(src, q, i) == 1 + i + Count(SubSeq(src, 1, i), q)

WellQuoted(out, src, q) ==
  /\ Len(out) = Required(src, q)
  /\ out[1] = q
  /\ out[Len(out)] = q
  /\ \A i \in 1..Len(src) :
       /\ out[At(src, q, i)] = src[i]
       /\ src[i] = q => out[At(src, q, i) - 1] = q

WriteDone == w.op \in {"write", "write2"}

QuoteUsed == IF w.op = "write" THEN Quote ELSE w.quote

(* the call of w repeated with a destination of the given capacity *)
SameCall(dest_null, dest_size) ==
  IF w.op = "write" THEN write(dest_null, dest_size, w.src)
  ELSE write2(dest_null, dest_size, w.src, w.quote)

-----------------------------------------------------------------------------
(* C2: round trip.  The field write(s) produces, parsed by a parser of      *)
(* default configuration and finished, is delivered as exactly one field   *)
(* event with content s and then one row event with terminator -1; no call *)
(* throws.  s ranges over all byte sequences of up to MaxSrc bytes with    *)
(* quotes, delimiters, spaces and terminators in them.                     *)
C2_RoundTrip ==
  WriteDone /\ w.quote = Quote =>
    /\ phase \notin {"failed", "finfailed"}
    /\ phase = "feeding" => events = <<>>
    /\ phase = "finished" => events = <<Col(w.src, FALSE), Row(-1)>>

C2_Witness ==
  /\ w.op = "write"
  /\ phase = "finished"
  /\ w.src = <<Quote, Comma, LF>>
  /\ events = <<Col(w.src, FALSE), Row(-1)>>

(* C3: writer result.  With a destination of sufficient capacity the bytes *)
(* stored are the quote, the bytes of src in order with each byte equal to *)
(* the quote stored twice and every other byte once, then the quote; the   *)
(* value returned is len(src) + 2 + the number of quote bytes in src.      *)
(* write is write2 with the double quote.                                  *)
C3_WriterResult ==
  WriteDone /\ ~w.dest_null /\ w.dest_size >= Required(w.src, QuoteUsed) =>
    /\ w.ret = Required(w.src, QuoteUsed)
    /\ WellQuoted(w.out, w.src, QuoteUsed)
    /\ w.op = "write" =>
         [ret |-> w.ret, out |-> w.out] = write2(w.dest_null, w.dest_size, w.src, Quote)

C3_Witness ==
  /\ w.op = "write2"
  /\ w.quote = Apostrophe
  /\ w.src = <<Apostrophe, Quote, Apostrophe>>
  /\ w.out = <<Apostrophe, Apostrophe, Apostrophe, Quote, Apostrophe, Apostrophe, Apostrophe>>
  /\ w.ret = 7

(* C4: size-only mode.  With a null destination or a capacity of zero      *)
(* nothing is stored and the value returned is the required capacity: the  *)
(* number of bytes the same call stores in a destination that is large     *)
(* enough.                                                                 *)
C4_SizeOnly ==
  WriteDone /\ (w.dest_null \/ w.dest_size = 0) =>
    /\ w.out = <<>>
    /\ w.ret = Required(w.src, QuoteUsed)
    /\ w.ret = Len(SameCall(FALSE, MaxDest).out)

C4_Witness ==
  /\ w.op = "write"
  /\ ~w.dest_null
  /\ w.dest_size = 0
  /\ w.src = <<Quote, LetterA, Quote>>
  /\ w.ret = 7
  /\ w.out = <<>>

-----------------------------------------------------------------------------
(* Input without quote bytes, read as text: fields lie between separators  *)
(* (delimiter or terminator bytes) and are trimmed of blanks at both ends. *)

Fed == SubSeq(doc, 1, pos)

QuoteFree(d) == \A i \in 1..Len(d) : d[i] # Quote

Max(S) == CHOOSE x \in S : \A y \in S : y <= x
Min(S) == CHOOSE x \in S : \A y \in S : x <= y

IsSep(c) == c = Comma \/ is_term(c)

(* the last separator, the last terminator before index i; 0 if none *)
PrevSep(d, i) == Max({0} \cup {j \in 1..(i - 1) : IsSep(d[j])})
PrevTerm(d, i) == Max({0} \cup {j \in 1..(i - 1) : is_term(d[j])})

(* some delimiter or field byte lies between the last terminator and i *)
RowBegun(d, i) == \E k \in (PrevTerm(d, i) + 1)..(i - 1) : ~is_space(d[k])

(* the bytes between the last separator and index i *)
Raw(d, i) == SubSeq(d, PrevSep(d, i) + 1, i - 1)

LTrim(s) ==
  LET keep == {i \in 1..Len(s) : ~is_space(s[i])}
  IN IF keep = {} THEN <<>> ELSE SubSeq(s, Min(keep), Len(s))

Trim(s) ==
  LET keep == {i \in 1..Len(s) : ~is_space(s[i])}
  IN IF keep = {} THEN <<>> ELSE SubSeq(s, Min(keep), Max(keep))

HasReq(o) == BitAnd(options, o) # 0

RefField(d, i) ==
  LET data == Trim(Raw(d, i))
  IN Col(data, HasReq(EmptyIsNull) /\ data = <<>>)

(* the events byte i of d completes *)
RefAt(d, i) ==
  IF d[i] = Comma THEN <<RefField(d, i)>>
  ELSE IF is_term(d[i]) THEN
    IF RowBegun(d, i) THEN <<RefField(d, i), Row(d[i])>>
    ELSE IF HasReq(RepAllNl) THEN <<Row(d[i])>>
    ELSE <<>>
  ELSE <<>>

RECURSIVE RefUpTo(_, _)
RefUpTo(d, n) == IF n = 0 THEN <<>> ELSE RefUpTo(d, n - 1) \o RefAt(d, n)

(* the events end of input completes *)
RefFinish(d) ==
  IF RowBegun(d, Len(d) + 1) THEN <<RefField(d, Len(d) + 1), Row(-1)>> ELSE <<>>

(* what the last call delivered *)
Emitted == SubSeq(events, call.nev + 1, Len(events))

LastChunk == Chunk(doc, call.at, call.len)

-----------------------------------------------------------------------------
(* C6: events are delivered in the call that completes them.  After every *)
(* parse call on input without quote bytes the events delivered so far    *)
(* are exactly those completed by the delimiter and terminator bytes      *)
(* consumed so far, and the bytes of the field under construction are     *)
(* kept in the parser; finish delivers that field whole and the row       *)
(* event.  For any input, a parse call whose chunk holds no delimiter and *)
(* no terminator byte delivers nothing, and finish delivers nothing or    *)
(* one field event and one row event.                                     *)
C6_DeliveredInCall ==
  /\ phase = "feeding" /\ QuoteFree(Fed) =>
       /\ events = RefUpTo(doc, pos)
       /\ p.entry = LTrim(Raw(doc, pos + 1))
  /\ phase = "finished" /\ QuoteFree(doc) =>
       /\ events = RefUpTo(doc, Len(doc)) \o RefFinish(doc)
       /\ Emitted = RefFinish(doc)
  /\ call.op = "parse" /\ (\A i \in 1..Len(LastChunk) : ~IsSep(LastChunk[i])) =>
       Emitted = <<>>
  /\ call.op = "finish" /\ ~call.threw =>
       \/ Emitted = <<>>
       \/ /\ Len(Emitted) = 2
          /\ Emitted[1].type = "COL"
          /\ Emitted[2] = Row(-1)

(* a call ended inside the second field of " 1,2 ," (test01), after the   *)
(* first field was delivered in an earlier call                           *)
C6_Witness ==
  /\ doc = test01_data
  /\ call.op = "parse"
  /\ call.at = 3
  /\ pos = 5
  /\ events = <<Col(<<49>>, FALSE)>>
  /\ call.nev = 1
  /\ p.entry = <<50, Space>>

-----------------------------------------------------------------------------
IsCol(e) == e.type = "COL"
IsRow(e) == e.type = "ROW"

RECURSIVE SortedSeq(_)
SortedSeq(S) == IF S = {} THEN <<>> ELSE <<Min(S)>> \o SortedSeq(S \ {Min(S)})

(* the indices up to n at which a field of quote-free d ends; Len(d) + 1   *)
(* stands for the end of input                                            *)
FieldEnds(d, n) ==
  SortedSeq({i \in 1..n : i <= Len(d) /\ (d[i] = Comma \/ (is_term(d[i]) /\ RowBegun(d, i)))}
            \cup {i \in {Len(d) + 1} : i <= n /\ RowBegun(d, i)})

NoBlankAtEnds(s) == s = <<>> \/ (~is_space(s[1]) /\ ~is_space(s[Len(s)]))

(* C7: with default configuration an unquoted field is delivered without  *)
(* its leading and trailing blanks and with everything between them kept: *)
(* on input without quote bytes the k-th field event carries the bytes    *)
(* between the separators around the k-th field, trimmed at both ends,    *)
(* and is not null.  test01 yields "1","2","3","4","5", the unquoted      *)
(* field of test06 is "a b  c", test17 keeps its NUL bytes.               *)
C7_UnquotedTrimmed ==
  /\ options = 0 /\ QuoteFree(Fed) /\ phase \in {"feeding", "finished"} =>
       LET cols == SelectSeq(events, IsCol)
           ends == FieldEnds(doc, IF phase = "finished" THEN Len(doc) + 1 ELSE pos)
       IN /\ Len(cols) = Len(ends)
          /\ \A k \in 1..Len(cols) :
               /\ cols[k].data = Trim(Raw(doc, ends[k]))
               /\ NoBlankAtEnds(cols[k].data)
               /\ ~cols[k].null
  /\ options = 0 /\ phase = "finished" =>
       /\ doc = test01_data => events = test01_results.ev
       /\ doc = test06_data => events = test06_results.ev
       /\ doc = test17_data => events = test17_results.ev

(* " 1,2 ,  3         ,4,5\r\n" was parsed in pieces and finished *)
C7_Witness ==
  /\ options = 0
  /\ phase = "finished"
  /\ call.split
  /\ doc = test01_data
  /\ SelectSeq(events, IsCol) =
       <<Col(<<49>>, FALSE), Col(<<50>>, FALSE), Col(<<51>>, FALSE),
         Col(<<52>>, FALSE), Col(<<53>>, FALSE)>>

-----------------------------------------------------------------------------
(* the last call consumed, outside a quoted field, an LF that follows a CR *)
AfterCRLF ==
  /\ call.op = "parse"
  /\ ~call.threw
  /\ pos >= 2
  /\ doc[pos - 1] = CR
  /\ doc[pos] = LF
  /\ p.pstate = "ROW_NOT_BEGUN"

-----------------------------------------------------------------------------
(* C9: the input of test07, " "" " "" ", has a quote after the blank that  *)
(* follows a candidate closing quote (its 8th byte).  With Strict the      *)
(* parse call that reaches that byte throws Eparse and no event has been   *)
(* delivered by then; without Strict no call throws and after finish       *)
(* exactly the 9-byte field with the stray quotes and the row event -1     *)
(* have been delivered.                                                    *)
C9_StrictRejects ==
  doc = test07_data =>
    /\ HasReq(Strict) =>
         /\ events = <<>>
         /\ pos < 8 => phase = "feeding"
         /\ pos >= 8 => /\ phase = "failed"
                        /\ call.op = "parse"
                        /\ call.threw
                        /\ call.type = Eparse
    /\ ~HasReq(Strict) =>
         /\ phase \in {"feeding", "finished"}
         /\ phase = "feeding" => events = <<>>
         /\ phase = "finished" =>
              /\ events = test07_results.ev
              /\ Len(events[1].data) = 9

(* Strict: the offending byte was met in a later chunk and the call threw *)
C9_Witness ==
  /\ doc = test07_data
  /\ HasReq(Strict)
  /\ phase = "failed"
  /\ call.split
  /\ call.type = Eparse
  /\ events = <<>>

-----------------------------------------------------------------------------
C10_Events ==
  /\ ~HasReq(EmptyIsNull) => \A i \in 1..Len(events) : ~events[i].null
  /\ \A i \in 1..Len(events) :
       events[i].null => IsCol(events[i]) /\ events[i].data = <<>>
  /\ HasReq(EmptyIsNull) /\ QuoteFree(Fed) =>
       \A i \in 1..Len(events) :
         IsCol(events[i]) /\ events[i].data = <<>> => events[i].null
  /\ phase = "finished" /\ doc = <<Quote, Quote>> =>
       events = <<Col(<<>>, FALSE), Row(-1)>>
  /\ phase = "finished" /\ doc = <<Comma, Comma>> =>
       LET f == Col(<<>>, HasReq(EmptyIsNull)) IN events = <<f, f, f, Row(-1)>>
  /\ phase = "finished" /\ doc = test19_data /\ HasReq(EmptyIsNull) =>
       events = test19_results.ev

(* a call that consumes one byte, or finish, and delivers a field: the    *)
(* field is null exactly when the flag is set, the field was not quoted   *)
(* and nothing is left of it after trimming                               *)
C10_Delivery ==
  LET new == SubSeq(events', Len(events) + 1, Len(events'))
  IN /\ call'.op = "finish" \/ (call'.op = "parse" /\ call'.len = 1)
     /\ new # <<>>
     /\ IsCol(new[1])
     => (new[1].null <=>
           HasReq(EmptyIsNull) /\ p.quoted = 0 /\ new[1].data = <<>>)

(* C10: EmptyIsNull.  With the flag a field event is null exactly when    *)
(* the field was unquoted and has no bytes after trimming; a quoted empty *)
(* field ("") is delivered non-null with length 0; without the flag no    *)
(* event is null.  ",," gives three null fields with the flag and three   *)
(* non-null empty fields without it; test19 gives null, empty, null.      *)
C10_EmptyIsNull == []C10_Events /\ [][C10_Delivery]_vars

(* ",," finished with the flag set: three null fields *)
C10_Witness ==
  /\ HasReq(EmptyIsNull)
  /\ phase = "finished"
  /\ doc = <<Comma, Comma>>
  /\ events = <<Col(<<>>, TRUE), Col(<<>>, TRUE), Col(<<>>, TRUE), Row(-1)>>

-----------------------------------------------------------------------------
(* the parser has no field under construction and no row begun: nothing   *)
(* has gone to it for this file, or it has just been finished, or the     *)
(* last byte it consumed was a row terminator outside quotes              *)
NoInput == pos = 0 /\ call = NoCall

JustFinished == phase = "finished"

AfterTerminator ==
  /\ phase = "feeding"
  /\ pos > 0
  /\ is_term(doc[pos])
  /\ ~(p.pstate = "FIELD_BEGUN" /\ p.quoted = 1)

NoPending == NoInput \/ JustFinished \/ AfterTerminator

FinishStep == call'.op = "finish" /\ pos' = pos /\ doc' = doc

C11_Step ==
  NoPending /\ FinishStep =>
    /\ events' = events
    /\ ~call'.threw
    /\ phase' = "finished"
    /\ p' = Fresh(p)

(* C11: finish on a parser without a pending partial field delivers no    *)
(* event and does not throw: on a parser that has received no input,      *)
(* right after a successful finish, and when the last byte consumed was a *)
(* row terminator outside quotes ("a\n" ends with its two events already  *)
(* delivered); the parser is then as a constructed parser of the same     *)
(* configuration.                                                         *)
C11_FinishIdempotent ==
  /\ [][C11_Step]_vars
  /\ [](phase = "finished" /\ doc = test10_data /\ ~error_occurred =>
          events = test10_results.ev)

(* "a" was finished, which delivered its field and row, and finished once *)
(* more, which delivered nothing                                          *)
C11_Witness ==
  /\ doc = <<LetterA>>
  /\ phase = "finished"
  /\ call.op = "finish"
  /\ ~call.threw
  /\ events = <<Col(<<LetterA>>, FALSE), Row(-1)>>
  /\ call.nev = 2
  /\ p = Fresh(p)

-----------------------------------------------------------------------------
(* what a constructed parser of p's configuration delivers for the first  *)
(* n bytes of d                                                           *)
EventsOf(d, n) == parse(Fresh(p), SubSeq(d, 1, n)).ev

Rows(ev) == Len(SelectSeq(ev, IsRow))

(* the byte of d that completed the last row event; 0 if there is none *)
LastRowAt(d) ==
  Max({0} \cup {i \in 1..Len(d) : Rows(EventsOf(d, i)) > Rows(EventsOf(d, i - 1))})

(* a delimiter or a field byte has been consumed since the last row event *)
RowOpen(d) ==
  \E k \in (LastRowAt(d) + 1)..Len(d) : ~is_space(d[k]) /\ ~is_term(d[k])

FinishReturned == phase = "finished" /\ call.op = "finish"

(* C12: when a delimiter or a field byte has been consumed since the last *)
(* row event (or since the start), a successful finish delivers exactly   *)
(* one field event, the pending field, and then exactly one row event     *)
(* with terminator -1, and nothing else; the field has length 0 when the  *)
(* input ended right after a delimiter.  Otherwise finish delivers        *)
(* nothing.  test03, test06, test13 and test14 end this way.              *)
C12_FinishFlushes ==
  FinishReturned =>
    /\ RowOpen(doc) =>
         /\ Len(Emitted) = 2
         /\ IsCol(Emitted[1])
         /\ Emitted[2] = Row(-1)
         /\ QuoteFree(doc) /\ doc[Len(doc)] = Comma => Emitted[1].data = <<>>
         /\ QuoteFree(doc) => Emitted[1].data = Trim(Raw(doc, Len(doc) + 1))
    /\ ~RowOpen(doc) => Emitted = <<>>
    /\ options = 0 =>
         /\ doc = test03_data => events = test03_results.ev
         /\ doc = test06_data => events = test06_results.ev
         /\ doc = test13_data => events = test13_results.ev
         /\ doc = test14_data => events = test14_results.ev

(* test14 ends right after a delimiter that follows a row event: finish   *)
(* delivered the empty last field and Row(-1)                             *)
C12_Witness ==
  /\ FinishReturned
  /\ doc = test14_data
  /\ call.split
  /\ RowOpen(doc)
  /\ LastRowAt(doc) = 19
  /\ Emitted = <<Col(<<>>, HasReq(EmptyIsNull)), Row(-1)>>

-----------------------------------------------------------------------------
(* the parser a constructed parser of p's configuration has become when   *)
(* all of d has gone through it                                           *)
EndState(d) == parse(Fresh(p), d).p

(* the input ends inside a quoted field whose closing quote never came *)
InQuotedField(q) == q.pstate = "FIELD_BEGUN" /\ q.quoted = 1

FinishCalled == call.op = "finish" /\ phase \in {"finished", "finfailed"}

-----------------------------------------------------------------------------
(* the last byte consumed was a quote inside a quoted field: it closes    *)
(* the field unless another quote follows                                 *)
QuoteSeenInQuotedField(q) == q.pstate = "FIELD_MIGHT_HAVE_ENDED" /\ q.spaces = 0

StrictFinishSet == HasReq(Strict) /\ HasReq(StrictFini)

(* C14, as stated: with StrictFinish set, finish called when the last     *)
(* byte consumed was a quote inside a quoted field (the input ends with   *)
(* "abc" or """""") fails, as it does inside a quoted field.              *)
C14_Original ==
  FinishCalled /\ StrictFinishSet /\ QuoteSeenInQuotedField(EndState(doc)) =>
    call.threw

(* C14, amended: with StrictFinish set, finish called when the last byte  *)
(* consumed was a quote inside a quoted field does not fail: that quote   *)
(* is taken as the closing quote, and finish delivers the field without   *)
(* it and Row(-1).  test05, which ends with """""", passes with Strict    *)
(* and StrictFini set; "abc" gives abc.                                   *)
C14_ClosedAtEnd ==
  FinishCalled /\ StrictFinishSet /\ QuoteSeenInQuotedField(EndState(doc)) =>
    /\ ~call.threw
    /\ phase = "finished"
    /\ Emitted = <<Col(Drop(EndState(doc).entry, 1), FALSE), Row(-1)>>
    /\ doc = test05_data /\ ~HasReq(EmptyIsNull) => events = test05_results.ev
    /\ doc = test13_data => events = test13_results.ev

(* test05 fed in pieces with Strict and StrictFini set, and finished *)
C14_Witness ==
  /\ doc = test05_data
  /\ StrictFinishSet
  /\ QuoteSeenInQuotedField(EndState(doc))
  /\ phase = "finished"
  /\ call.op = "finish"
  /\ call.split
  /\ Emitted = <<Col(<<Quote, Quote>>, FALSE), Row(-1)>>

-----------------------------------------------------------------------------
(* a constructed parser of p's configuration, given the first n bytes of  *)
(* d in one call, throws                                                  *)
Throws(d, n) == parse(Fresh(p), SubSeq(d, 1, n)).threw

(* csvvalid: pos + e.bytes_parsed, the 0-based place of the fault *)
FaultOffset == call.at + call.ret

(* C15: error offset.  When a parse call throws the malformed-input       *)
(* error, bytes_parsed is the number of bytes of its chunk consumed       *)
(* before the offending byte, so the lengths of the earlier chunks plus   *)
(* bytes_parsed is the 0-based index of the offending byte in the whole   *)
(* input: the input up to that byte is accepted, the input with that byte *)
(* is not, and the index is the one a single call on the whole input      *)
(* reports, whatever the split.  In test07 under Strict it is 7.          *)
C15_ErrorOffset ==
  phase = "failed" =>
    /\ call.op = "parse"
    /\ call.threw
    /\ call.type = Eparse
    /\ call.ret < call.len
    /\ FaultOffset < Len(doc)
    /\ ~Throws(doc, FaultOffset)
    /\ Throws(doc, FaultOffset + 1)
    /\ FaultOffset = parse(Fresh(p), doc).bytes_parsed
    /\ doc = test07_data => FaultOffset = 7

(* test07 under Strict, the offending byte met in the middle of a later   *)
(* chunk                                                                  *)
C15_Witness ==
  /\ doc = test07_data
  /\ HasReq(Strict)
  /\ phase = "failed"
  /\ call.at = 6
  /\ call.len = 3
  /\ call.ret = 1
  /\ FaultOffset = 7

-----------------------------------------------------------------------------
ParseCalled == call.op = "parse"

(* C16: a parse call that detects no error returns the length of the      *)
(* chunk it was given, in whatever lexical state the chunk ends; parse    *)
(* throws CsvError exactly when the engine's error code is not 0 after    *)
(* the call, also when that code was set by an earlier call and this call *)
(* consumed its whole chunk.                                              *)
C16_ParseReturn ==
  ParseCalled =>
    /\ call.threw <=> csv_error(p) # 0
    /\ call.threw <=> phase = "failed"
    /\ ~call.threw =>
         /\ call.ret = call.len
         /\ pos = call.at + call.ret
         /\ p = parse(Fresh(p), Fed).p
    /\ call.threw => call.type = csv_error(p)

(* a chunk that ended inside a quoted field was consumed whole *)
C16_Witness ==
  /\ ParseCalled
  /\ ~call.threw
  /\ doc = <<LetterA, Comma, Quote>>
  /\ call.at = 1
  /\ call.len = 2
  /\ call.ret = 2
  /\ InQuotedField(p)
  /\ events = <<Col(<<LetterA>>, FALSE)>>

-----------------------------------------------------------------------------
(* C17: a parse call that detects malformed input stops at the offending  *)
(* byte.  When it throws, the events delivered are exactly those the      *)
(* bytes before the offending byte complete, in order: nothing is         *)
(* delivered for the offending byte nor for the bytes after it in the     *)
(* chunk, and the parser holds the field as it was before that byte.  On  *)
(* a prefix without quote bytes those events are the ones its delimiters  *)
(* and terminators complete.                                              *)
C17_StopsAtFault ==
  phase = "failed" =>
    /\ events = EventsOf(doc, FaultOffset)
    /\ Emitted = SubSeq(EventsOf(doc, FaultOffset), call.nev + 1,
                        Len(EventsOf(doc, FaultOffset)))
    /\ p = [EndState(SubSeq(doc, 1, FaultOffset)) EXCEPT !.status = Eparse]
    /\ QuoteFree(SubSeq(doc, 1, FaultOffset)) => events = RefUpTo(doc, FaultOffset)

(* ,a" under Strict in one call: the empty first field was delivered,     *)
(* then the call threw at the quote                                       *)
C17_Witness ==
  /\ doc = <<Comma, LetterA, Quote>>
  /\ HasReq(Strict)
  /\ phase = "failed"
  /\ call.at = 0
  /\ call.len = 3
  /\ FaultOffset = 2
  /\ events = <<Col(<<>>, HasReq(EmptyIsNull))>>
  /\ p.entry = <<LetterA>>

-----------------------------------------------------------------------------
ParseStep == call'.op = "parse" /\ pos' > pos

C18_Later ==
  /\ error_occurred /\ ParseStep => call'.threw /\ phase' = "failed"
  /\ csv_error(p) # 0 /\ csv_error(p') = 0 => FinishStep /\ ~call'.threw
  /\ FinishStep /\ ~call'.threw => csv_error(p') = 0

C18_Code ==
  /\ error_occurred /\ phase # "finished" => csv_error(p) = Eparse
  /\ ~error_occurred /\ phase \in {"feeding", "closed"} => csv_error(p) = 0

(* C18: sticky error.  Once a parse call has thrown, the error code stays *)
(* set and every later parse call on the parser throws too, also for a    *)
(* chunk it consumes whole; the code is cleared only by a finish that     *)
(* succeeds (a parser as constructed has none), after which a parse call  *)
(* throws only for a new fault.                                           *)
C18_StickyError == [][C18_Later]_vars /\ []C18_Code

(* a" under Strict threw at the quote; the next chunk, a delimiter, was   *)
(* consumed whole, completed the field, and the call threw again          *)
C18_Witness ==
  /\ doc = <<LetterA, Quote, Comma>>
  /\ HasReq(Strict)
  /\ phase = "failed"
  /\ ParseCalled
  /\ call.at = 2
  /\ call.len = 1
  /\ call.ret = 1
  /\ call.threw
  /\ call.type = Eparse
  /\ events = <<Col(<<LetterA>>, FALSE)>>

-----------------------------------------------------------------------------
(* the parser as the driver constructed and configured it *)
Constructed == NewParser(options, Comma, Quote)

(* what a constructed parser does with the bytes of this file fed so far *)
FreshRun == parse(Constructed, Fed)

C19_State ==
  /\ phase \in {"finished", "closed"} => p = Constructed
  /\ p.options = Constructed.options
  /\ p.delim_char = Constructed.delim_char
  /\ p.quote_char = Constructed.quote_char
  /\ phase = "feeding" => /\ ~FreshRun.threw
                          /\ p = FreshRun.p
                          /\ events = FreshRun.ev
  /\ ~error_occurred /\ phase \in {"finished", "finfailed"} =>
       [ev |-> events, end |-> phase] = OneShot(Constructed, doc)

(* the first parse call of a file that throws *)
C19_Fault ==
  ~error_occurred /\ ParseStep /\ call'.threw =>
    /\ OneShot(Constructed, doc) = [ev |-> events', end |-> "failed"]
    /\ call'.at + call'.ret = parse(Constructed, doc).bytes_parsed

(* C19: reuse after finish.  When finish has returned, also for a file in *)
(* which a parse call had thrown, the lexical state, the pending field    *)
(* and the error code are those of a constructed parser while options,    *)
(* delimiter and quote are unchanged; so every file that follows is       *)
(* parsed, call by call and to its end or to its first fault, with the    *)
(* events and the outcome a newly constructed parser of the same          *)
(* configuration gives.                                                   *)
C19_ReuseAfterFinish == []C19_State /\ [][C19_Fault]_vars

(* the second file of a Strict parser, "1","2"," 3 , fed in pieces and    *)
(* finished: the events of test16, and the parser as constructed again    *)
C19_Witness ==
  /\ file = 2
  /\ HasReq(Strict)
  /\ ~HasReq(StrictFini)
  /\ doc = test16_data
  /\ phase = "finished"
  /\ ~error_occurred
  /\ call.split
  /\ events = test16_results.ev
  /\ p = Constructed

-----------------------------------------------------------------------------
Cols(ev) == SelectSeq(ev, IsCol)

(* the run of this input by a parser constructed with the same options    *)
(* but for ReportAllNewlines, which is set, or not set                    *)
WithRepAllNl == OneShot(NewParser(BitOr(options, RepAllNl), Comma, Quote), doc)
WithoutRepAllNl ==
  OneShot(NewParser(options - BitAnd(options, RepAllNl), Comma, Quote), doc)

(* C20: ReportAllNewlines changes the cadence of row events only.  For    *)
(* every input and every setting of the other options the field events   *)
(* delivered with the flag are, in content, null-ness and order, the      *)
(* field events delivered without it, and the run ends the same way; the  *)
(* flag only adds row events.  test12, four LF bytes, gives four row      *)
(* events with the flag and no event without it, no field event either    *)
(* way.                                                                   *)
C20_RowCadenceOnly ==
  Ended =>
    /\ [ev |-> events, end |-> phase] =
         IF HasReq(RepAllNl) THEN WithRepAllNl ELSE WithoutRepAllNl
    /\ Cols(WithRepAllNl.ev) = Cols(WithoutRepAllNl.ev)
    /\ WithRepAllNl.end = WithoutRepAllNl.end
    /\ Rows(WithRepAllNl.ev) >= Rows(WithoutRepAllNl.ev)
    /\ doc = test12_data =>
         /\ HasReq(RepAllNl) => events = test12b_results.ev
         /\ ~HasReq(RepAllNl) => events = test12_results.ev

(* a,CR,LF with the flag: the field once, a row event for CR and one more *)
(* for LF                                                                 *)
C20_Witness ==
  /\ doc = <<LetterA, CR, LF>>
  /\ HasReq(RepAllNl)
  /\ phase = "finished"
  /\ call.split
  /\ events = <<Col(<<LetterA>>, FALSE), Row(CR), Row(LF)>>
  /\ WithoutRepAllNl.ev = <<Col(<<LetterA>>, FALSE), Row(CR)>>

-----------------------------------------------------------------------------
(* a row event for each terminator byte among the first n bytes of d *)
RECURSIVE RowPerTerminator(_, _)
RowPerTerminator(d, n) ==
  IF n = 0 THEN <<>>
  ELSE RowPerTerminator(d, n - 1) \o (IF is_term(d[n]) THEN <<Row(d[n])>> ELSE <<>>)

(* a call that consumes one terminator byte, met outside a quoted field *)
C21_Step ==
  LET new == SubSeq(events', Len(events) + 1, Len(events'))
  IN HasReq(RepAllNl) /\ ParseStep /\ call'.len = 1 /\ ~call'.threw
     /\ is_term(doc[pos']) /\ ~InQuotedField(p)
     => /\ new # <<>>
        /\ new[Len(new)] = Row(doc[pos'])
        /\ Rows(new) = 1
        /\ p.pstate = "ROW_NOT_BEGUN" => new = <<Row(doc[pos'])>>
        /\ p.pstate # "ROW_NOT_BEGUN" => Len(new) = 2 /\ IsCol(new[1])

C21_Rows ==
  HasReq(RepAllNl) =>
    /\ phase = "feeding" /\ QuoteFree(Fed) =>
         SelectSeq(events, IsRow) = RowPerTerminator(doc, pos)
    /\ /\ ParseCalled /\ call.len = 1 /\ pos >= 2 /\ QuoteFree(Fed)
       /\ is_term(doc[pos]) /\ is_term(doc[pos - 1])
       => Emitted = <<Row(doc[pos])>>
    /\ Ended /\ doc = test12_data => events = test12b_results.ev

(* C21: with ReportAllNewlines every terminator byte met outside a quoted *)
(* field gives its own row event, which carries that byte; a terminator   *)
(* at the start of a row, with nothing since the last row event, gives    *)
(* the row event and no field event.  Four LF bytes give four row events  *)
(* with terminator LF and no field event.                                 *)
C21_EveryTerminator == [][C21_Step]_vars /\ []C21_Rows

(* the four LF of test12b, one per call: the last one delivered the       *)
(* fourth row event                                                       *)
C21_Witness ==
  /\ doc = test12_data
  /\ HasReq(RepAllNl)
  /\ ParseCalled
  /\ call.at = 3
  /\ call.len = 1
  /\ Emitted = <<Row(LF)>>
  /\ events = <<Row(LF), Row(LF), Row(LF), Row(LF)>>

-----------------------------------------------------------------------------
(* C22: set_options replaces the option set.  After set_options(S) the     *)
(* enabled options are exactly those of S, whatever was enabled before:    *)
(* the engine's flags are the bitwise OR of the members of S and nothing   *)
(* else of the parser changes; an empty S leaves no option enabled.        *)

SetOptionsStep == call'.op = "set_options"

C22_Step ==
  SetOptionsStep
    => /\ p' = [p EXCEPT !.options = options']
       /\ \A o \in AllOptions : HasOpt(p', o) <=> BitAnd(options', o) # 0
       /\ OptionList(options') = <<>> => p'.options = 0

C22_State ==
  call.op = "set_options"
    => /\ p.options = call.len
       /\ \A o \in AllOptions : HasOpt(p, o) <=> BitAnd(call.len, o) # 0

C22_ReplaceAll == [][C22_Step]_vars /\ []C22_State

(* Strict and RepAllNl were enabled; set_options({StrictFini,             *)
(* EmptyIsNull}) leaves exactly StrictFini and EmptyIsNull enabled        *)
C22_Witness ==
  /\ call.op = "set_options"
  /\ call.ret = Strict + RepAllNl
  /\ call.len = StrictFini + EmptyIsNull
  /\ p.options = StrictFini + EmptyIsNull
  /\ ~HasOpt(p, Strict)

-----------------------------------------------------------------------------
(* C23: a block size of zero is reported as an invalid-configuration error *)
(* by set_block_size itself: the call set_block_size(0) throws a CsvError  *)
(* of type Einvalid and leaves the block size as it was.                   *)

C23_ZeroBlockSizeRejected ==
  call.op = "set_block_size" /\ call.len = 0
    => /\ call.threw
       /\ call.type = Einvalid
       /\ get_block_size(p) = call.ret

(* set_block_size(0) has returned and the block size is 0 *)
C23_Witness ==
  /\ call.op = "set_block_size"
  /\ call.len = 0
  /\ ~call.threw
  /\ call.ret = MEM_BLK_SIZE
  /\ get_block_size(p) = 0

-----------------------------------------------------------------------------
(* C24: without ReportAllNewlines every row event, for a terminator or for *)
(* the end of input, directly follows a field event of its row; a          *)
(* terminator consumed when nothing of a row has been seen delivers        *)
(* nothing, so an input of terminators only yields no event, also after    *)
(* finish; a terminator directly after a delimiter delivers a zero-length  *)
(* field and then the row event.                                           *)

NewEvents == SubSeq(events', Len(events) + 1, Len(events'))

OnlyTerminators(d) == \A i \in 1..Len(d) : is_term(d[i])

C24_Step ==
  ~HasReq(RepAllNl) /\ ParseStep /\ call'.len = 1 /\ ~call'.threw
  /\ is_term(doc[pos'])
    => /\ p.pstate = "ROW_NOT_BEGUN" => NewEvents = <<>> /\ p' = p
       /\ p.pstate = "FIELD_NOT_BEGUN"
            => NewEvents = <<Col(<<>>, HasReq(EmptyIsNull)), Row(doc[pos'])>>

C24_State ==
  ~HasReq(RepAllNl)
    => /\ \A i \in 1..Len(events) :
            IsRow(events[i]) => i > 1 /\ IsCol(events[i - 1])
       /\ OnlyTerminators(Fed) => events = <<>>
       /\ Ended /\ OnlyTerminators(doc) => phase = "finished" /\ events = <<>>
       /\ Ended /\ doc = test12_data => events = test12_results.ev
       /\ Ended /\ doc = test14_data /\ ~HasReq(EmptyIsNull)
            => events = test14_results.ev
       /\ Ended /\ doc = test15_data /\ ~HasReq(EmptyIsNull)
            => events = test15_results.ev

C24_RowAfterField == [][C24_Step]_vars /\ []C24_State

(* "a," then LF in a call of its own: the empty field and the row event *)
C24_Witness ==
  /\ doc = <<LetterA, Comma, LF>>
  /\ options = 0
  /\ ParseCalled
  /\ call.at = 2
  /\ call.len = 1
  /\ Emitted = <<Col(<<>>, FALSE), Row(LF)>>

-----------------------------------------------------------------------------
(* C25: inside a quoted field every byte other than the quote character,   *)
(* delimiters, spaces and terminators included, is stored verbatim; two    *)
(* quote characters in a row stand for one literal quote; the opening and  *)
(* the closing quote are not part of the field.  The same with and         *)
(* without Strict.                                                         *)

(* the content of a quoted field whose bytes after the opening quote are   *)
(* b: "open" when b ends inside the field, "candidate" when b ends with a  *)
(* quote that closes the field if nothing follows, "closed" when such a    *)
(* quote is followed by another byte                                       *)
RECURSIVE Unquote(_)
Unquote(b) ==
  IF b = <<>> THEN [data |-> <<>>, state |-> "open"]
  ELSE IF b[1] # Quote
    THEN LET r == Unquote(Tail(b)) IN [r EXCEPT !.data = <<b[1]>> \o @]
  ELSE IF Len(b) = 1 THEN [data |-> <<>>, state |-> "candidate"]
  ELSE IF b[2] = Quote
    THEN LET r == Unquote(SubSeq(b, 3, Len(b))) IN [r EXCEPT !.data = <<Quote>> \o @]
  ELSE [data |-> <<>>, state |-> "closed"]

Feeding == phase = "feeding"

C25_Step ==
  ParseStep /\ call'.len = 1
    => /\ InQuotedField(p) /\ doc[pos'] # Quote
            => /\ ~call'.threw
               /\ NewEvents = <<>>
               /\ p' = [p EXCEPT !.entry = Append(p.entry, doc[pos'])]
       /\ InQuotedField(p) /\ doc[pos'] = Quote
            => ~call'.threw /\ NewEvents = <<>> /\ ~InQuotedField(p')
       /\ p.pstate = "FIELD_MIGHT_HAVE_ENDED" /\ p.spaces = 0 /\ doc[pos'] = Quote
            => /\ ~call'.threw
               /\ NewEvents = <<>>
               /\ InQuotedField(p')
               /\ p'.entry = p.entry
               /\ p.entry[Len(p.entry)] = Quote
       /\ p.pstate = "FIELD_MIGHT_HAVE_ENDED" /\ p.spaces = 0 /\ IsSep(doc[pos'])
            => /\ ~call'.threw
               /\ NewEvents # <<>>
               /\ NewEvents[1] = Col(Drop(p.entry, 1), FALSE)

C25_State ==
  /\ Feeding /\ pos > 0 /\ doc[1] = Quote
       => LET u == Unquote(Tail(Fed))
          IN /\ u.state = "open"
                  => InQuotedField(p) /\ p.entry = u.data /\ events = <<>>
             /\ u.state = "candidate"
                  => /\ p.pstate = "FIELD_MIGHT_HAVE_ENDED"
                     /\ Drop(p.entry, 1) = u.data
                     /\ events = <<>>
  /\ Ended /\ doc # <<>> /\ doc[1] = Quote /\ Unquote(Tail(doc)).state = "candidate"
       => /\ phase = "finished"
          /\ events = <<Col(Unquote(Tail(doc)).data, FALSE), Row(-1)>>
  /\ Ended /\ doc = test03_data => events = test03_results.ev
  /\ Ended /\ doc = test06_data /\ ~HasReq(EmptyIsNull)
       => events = test06_results.ev

C25_QuotedVerbatim == [][C25_Step]_vars /\ []C25_State

(* the three bytes quote, quote, quote under Strict: the field is open     *)
(* and holds one quote                                                     *)
C25_Witness ==
  /\ doc = <<Quote, Quote, Quote>>
  /\ HasReq(Strict)
  /\ Feeding
  /\ pos = 3
  /\ call.len = 1
  /\ InQuotedField(p)
  /\ p.entry = <<Quote>>

-----------------------------------------------------------------------------
(* C26: spaces between the closing quote of a quoted field and the next   *)
(* delimiter, terminator or the end of input are tolerated, with and       *)
(* without Strict, and are not part of the field: the field delivered is   *)
(* the content between the quotes.                                         *)

RECURSIVE TrailingSpaces(_)
TrailingSpaces(s) ==
  IF s = <<>> \/ ~is_space(s[Len(s)]) THEN 0
  ELSE 1 + TrailingSpaces(Drop(s, 1))

(* s is a quoted field from its opening quote to its closing quote,       *)
(* followed by at least one space and nothing else                        *)
ClosedThenSpaces(s) ==
  /\ s # <<>>
  /\ s[1] = Quote
  /\ TrailingSpaces(s) > 0
  /\ Unquote(Tail(Drop(s, TrailingSpaces(s)))).state = "candidate"

Content(s) == Unquote(Tail(Drop(s, TrailingSpaces(s)))).data

C26_Step ==
  ParseStep /\ call'.len = 1 /\ p.pstate = "FIELD_MIGHT_HAVE_ENDED"
    => LET c == doc[pos']
           field == Col(Drop(p.entry, p.spaces + 1), FALSE)
       IN /\ is_space(c)
               => /\ ~call'.threw
                  /\ NewEvents = <<>>
                  /\ p'.pstate = "FIELD_MIGHT_HAVE_ENDED"
                  /\ p'.spaces = p.spaces + 1
                  /\ Drop(p'.entry, p'.spaces + 1) = Drop(p.entry, p.spaces + 1)
          /\ c = Comma => ~call'.threw /\ NewEvents = <<field>>
          /\ is_term(c) => ~call'.threw /\ NewEvents = <<field, Row(c)>>

C26_State ==
  /\ Feeding /\ ClosedThenSpaces(Fed)
       => /\ p.pstate = "FIELD_MIGHT_HAVE_ENDED"
          /\ p.spaces = TrailingSpaces(Fed)
          /\ Drop(p.entry, p.spaces + 1) = Content(Fed)
          /\ events = <<>>
  /\ Ended /\ ClosedThenSpaces(doc)
       => /\ phase = "finished"
          /\ events = <<Col(Content(doc), FALSE), Row(-1)>>
  /\ Ended /\ doc = test19_data
       => /\ phase = "finished"
          /\ Len(events) = 4
          /\ events[2] = Col(<<>>, FALSE)
          /\ HasReq(EmptyIsNull) => events = test19_results.ev
  /\ Ended /\ doc = test14_data /\ HasReq(Strict) /\ ~HasReq(EmptyIsNull)
       => /\ phase = "finished"
          /\ \E i \in 1..Len(events) : events[i] = Col(<<52>>, FALSE)

C26_SpacesAfterClosingQuote == [][C26_Step]_vars /\ []C26_State

(* test19 under Strict: the second field is the zero-length quoted field *)
C26_Witness ==
  /\ doc = test19_data
  /\ options = Strict
  /\ phase = "finished"
  /\ events = <<Col(<<>>, FALSE), Col(<<>>, FALSE), Col(<<>>, FALSE), Row(-1)>>

-----------------------------------------------------------------------------
(* C27: lenient recovery.  Without Strict, when a closing-quote candidate  *)
(* is followed by spaces and then another quote, the first quote and the   *)
(* spaces stay in the field as data and the later quote becomes the        *)
(* closing-quote candidate, dropped when a delimiter, a terminator or the  *)
(* end of input follows: the pattern of test08 yields the field            *)
(* < abc"> with the spaces after it, and the field <123>.                  *)

(* s is a quoted field closed by a quote, then spaces, then a quote *)
QuoteSpacesQuote(s) ==
  /\ Len(s) >= 4
  /\ s[Len(s)] = Quote
  /\ ClosedThenSpaces(Drop(s, 1))

(* the field of such bytes: the content, the first closing quote and the   *)
(* spaces                                                                  *)
Recovered(s) ==
  LET t == Drop(s, 1)
      k == TrailingSpaces(t)
  IN Content(t) \o SubSeq(t, Len(t) - k, Len(t))

C27_Step ==
  ParseStep /\ call'.len = 1 /\ p.pstate = "FIELD_MIGHT_HAVE_ENDED"
  /\ p.spaces > 0 /\ doc[pos'] = Quote /\ ~HasReq(Strict)
    => /\ ~call'.threw
       /\ NewEvents = <<>>
       /\ p'.pstate = "FIELD_MIGHT_HAVE_ENDED"
       /\ p'.spaces = 0
       /\ p'.entry = Append(p.entry, Quote)
       /\ finish(p').ev[1] = Col(p.entry, FALSE)
       /\ parse(p', <<Comma>>).ev = <<Col(p.entry, FALSE)>>
       /\ parse(p', <<LF>>).ev = <<Col(p.entry, FALSE), Row(LF)>>

C27_State ==
  ~HasReq(Strict)
    => /\ Feeding /\ QuoteSpacesQuote(Fed)
            => /\ p.pstate = "FIELD_MIGHT_HAVE_ENDED"
               /\ Drop(p.entry, 1) = Recovered(Fed)
               /\ events = <<>>
       /\ Ended /\ QuoteSpacesQuote(doc)
            => /\ phase = "finished"
               /\ events = <<Col(Recovered(doc), FALSE), Row(-1)>>
       /\ Ended /\ doc = test08_short_data
            => phase = "finished" /\ events = test08_short_results.ev
       /\ Ended /\ doc = test07_data
            => phase = "finished" /\ events = test07_results.ev

C27_LenientRecovery == [][C27_Step]_vars /\ []C27_State

(* the pattern of test08, fed byte 8 (the quote after the space) alone:    *)
(* the field holds < abc" > and the new candidate                          *)
C27_Witness ==
  /\ doc = test08_short_data
  /\ options = 0
  /\ ParseCalled
  /\ pos = 8
  /\ call.len = 1
  /\ p.pstate = "FIELD_MIGHT_HAVE_ENDED"
  /\ p.entry = <<32, 97, 98, 99, 34, 32, 34>>

-----------------------------------------------------------------------------
(* C28: a quote character inside an unquoted field, that is after at      *)
(* least one data byte of the field that is not a space, is a parse error  *)
(* (Eparse) under Strict; without Strict it is stored verbatim as data     *)
(* and does not start a quoted field.                                      *)

InUnquotedField(q) == q.pstate = "FIELD_BEGUN" /\ q.quoted = 0

(* s is the start of an unquoted field: a data byte first, no separator *)
UnquotedRun(s) ==
  /\ s # <<>>
  /\ s[1] = LetterA
  /\ \A i \in 1..Len(s) : ~IsSep(s[i])

FirstQuote(s) == Min({i \in 1..Len(s) : s[i] = Quote})

C28_Step ==
  ParseStep /\ call'.len = 1 /\ InUnquotedField(p) /\ doc[pos'] = Quote
    => /\ HasReq(Strict)
            => /\ call'.threw
               /\ call'.type = Eparse
               /\ call'.ret = 0
               /\ NewEvents = <<>>
               /\ phase' = "failed"
       /\ ~HasReq(Strict)
            => /\ ~call'.threw
               /\ NewEvents = <<>>
               /\ InUnquotedField(p')
               /\ p'.entry = Append(p.entry, Quote)

C28_State ==
  UnquotedRun(Fed) /\ ~QuoteFree(Fed)
    => /\ HasReq(Strict)
            => /\ phase = "failed"
               /\ events = <<>>
               /\ FaultOffset = FirstQuote(Fed) - 1
       /\ ~HasReq(Strict) /\ Feeding
            => InUnquotedField(p) /\ p.entry = Fed /\ events = <<>>
       /\ ~HasReq(Strict) /\ Ended /\ pos = Len(doc)
            => /\ phase = "finished"
               /\ events = <<Col(Trim(doc), FALSE), Row(-1)>>

C28_QuoteInUnquotedField == [][C28_Step]_vars /\ []C28_State

(* a, quote, a without Strict: one field of these three bytes *)
C28_Witness ==
  /\ doc = <<LetterA, Quote, LetterA>>
  /\ ~HasReq(Strict)
  /\ call.split
  /\ phase = "finished"
  /\ events = <<Col(<<LetterA, Quote, LetterA>>, FALSE), Row(-1)>>

-----------------------------------------------------------------------------
(* C29: delimiter and quote act by role.  A parser configured with a      *)
(* delimiter d and a quote q, distinct and neither space nor terminator,   *)
(* delivers for an input the events the default parser delivers for the    *)
(* input with d replaced by the comma and q by the double quote, the same  *)
(* replacement applied to the field contents.                              *)

ByRole(c, d, q) == IF c = d THEN Comma ELSE IF c = q THEN Quote ELSE c

Replaced(s, d, q) == [i \in 1..Len(s) |-> ByRole(s[i], d, q)]

ReplacedEvents(ev, d, q) ==
  [i \in 1..Len(ev) |->
     IF IsCol(ev[i]) THEN [ev[i] EXCEPT !.data = Replaced(@, d, q)] ELSE ev[i]]

Default == NewParser(options, Comma, Quote)

(* what the run so far is compared with: the default parser on the        *)
(* replaced bytes, its finish included once the run has ended             *)
DefaultRun ==
  LET d == get_delimiter(p)
      q == get_quote(p)
      r == parse(Default, Replaced(Fed, d, q))
      f == finish(r.p)
  IN IF r.threw THEN [ev |-> r.ev, phase |-> "failed"]
     ELSE IF phase = "feeding" THEN [ev |-> r.ev, phase |-> "feeding"]
     ELSE [ev |-> r.ev \o f.ev,
           phase |-> IF f.threw THEN "finfailed" ELSE "finished"]

SameByRole ==
  /\ ReplacedEvents(events, get_delimiter(p), get_quote(p)) = DefaultRun.ev
  /\ phase = DefaultRun.phase

(* the statement for every input *)
C29_Original == SameByRole

(* the comma and the double quote occur in s only in the roles of d and q *)
OnlyInRole(s, d, q) ==
  \A i \in 1..Len(s) : s[i] \in {Comma, Quote} => s[i] \in {d, q}

(* C29 (amended): delimiter and quote act by role, for an input in which  *)
(* the comma and the double quote occur only where they are d or q: the   *)
(* events are those of the default parser on the input with d replaced by *)
(* the comma and q by the double quote, the same replacement applied to   *)
(* the field contents; custom01 with ';' and the apostrophe mirrors       *)
(* test05.                                                                 *)
C29_ByRole ==
  /\ OnlyInRole(Fed, get_delimiter(p), get_quote(p)) => SameByRole
  /\ Ended /\ doc = custom01_data /\ options = 0
     /\ get_delimiter(p) = Semicolon /\ get_quote(p) = Apostrophe
       => /\ events = custom01_results.ev
          /\ phase = "finished"
          /\ Replaced(doc, Semicolon, Apostrophe) = test05_data
          /\ ReplacedEvents(events, Semicolon, Apostrophe) = test05_results.ev

(* custom01 has ended with its six fields and the row event *)
C29_Witness ==
  /\ doc = custom01_data
  /\ get_delimiter(p) = Semicolon
  /\ get_quote(p) = Apostrophe
  /\ options = 0
  /\ call.split
  /\ phase = "finished"
  /\ events = custom01_results.ev

=============================================================================
